---- MODULE Spec2Model ----
(***************************************************************************)
(* Model of mcp_server/server.py: the get_current_weather tool, the two    *)
(* static tables it reads, and the module-level Open-Meteo client with its *)
(* cached session.                                                         *)
(*                                                                         *)
(* Numbers are fixed point: a provider value v is carried as the integer   *)
(* h = 100 * v (hundredths) together with its Python type, so that the     *)
(* conversions the tool applies (int(), "{:.1f}", "{}") are computed.      *)
(* Coordinates are carried as 10000 * degrees.                             *)
(***************************************************************************)
EXTENDS Integers, Sequences, FiniteSets, TLC

VARIABLES
    weather,    \* what the provider holds now for the queried location
    cache,      \* cache_session: the stored 200-replies, as a set of [key, body]
    status,     \* "idle" before the first call, then "returned" or "raised"
    city,       \* the city argument of the last call
    units,      \* the units argument of the last call
    params,     \* the request the last call built, or NoParams
    calls,      \* how often the last call invoked openmeteo_client.weather_api
    net,        \* what the network did for the last call, or NoNet
    served,     \* "none", "cache" or "network": where the reply came from
    caught,     \* the exception an except clause of the last call caught, or NoExc
    result,     \* the dictionary the last call returned, or NoResult
    raised      \* the exception that left the last call uncaught, or NoExc

vars == <<weather, cache, status, city, units, params, calls, net, served, caught, result, raised>>

(***************************************************************************)
(* Bounds                                                                  *)
(***************************************************************************)
\* longest hourly series a reply carries
MaxSeries == 4

(***************************************************************************)
(* Python values                                                           *)
(***************************************************************************)
Float(h) == [ty |-> "float", h |-> h]
PyIntValue(n) == [ty |-> "int", h |-> 100 * n]
NaN == [ty |-> "nan", h |-> 0]

Abs(n) == IF n < 0 THEN 0 - n ELSE n

\* int(v): truncation toward zero; int(nan) raises ValueError
IntRaises(v) == v.ty = "nan"
IntOf(v) == IF v.h < 0 THEN 0 - (Abs(v.h) \div 100) ELSE v.h \div 100

\* the magnitude of v in tenths, rounded as "{:.1f}" rounds: to nearest, an
\* exact tie (only x.x5 values that binary floating point holds exactly reach
\* it) to the even tenth
RoundTenths(a) ==
    LET q == a \div 10
        r == a % 10
    IN  IF r > 5 THEN q + 1
        ELSE IF r < 5 THEN q
        ELSE IF q % 2 = 0 THEN q ELSE q + 1

\* f"{v:.1f}"
FormatOneDecimal(v) ==
    IF v.ty = "nan" THEN "nan"
    ELSE LET t == RoundTenths(Abs(v.h))
         IN  (IF v.h < 0 THEN "-" ELSE "") \o ToString(t \div 10) \o "." \o ToString(t % 10)

\* the fraction digits repr() shows for a float with f hundredths
FractionDigits(f) ==
    IF f % 10 = 0 THEN ToString(f \div 10)
    ELSE IF f < 10 THEN "0" \o ToString(f)
    ELSE ToString(f)

\* f"{v}": str(v). An int prints its digits; a float prints repr(), which
\* always shows a decimal point
FormatPlain(v) ==
    IF v.ty = "nan" THEN "nan"
    ELSE IF v.ty = "int" THEN ToString(v.h \div 100)
    ELSE (IF v.h < 0 THEN "-" ELSE "") \o ToString(Abs(v.h) \div 100)
         \o "." \o FractionDigits(Abs(v.h) % 100)

(***************************************************************************)
(* The static tables                                                       *)
(***************************************************************************)
OPENMETEO_BASE_URL == "https://api.open-meteo.com/v1/forecast"

CityNames == {"London", "New York", "Paris", "Berlin", "Tokyo", "Mumbai"}

CITY_COORDINATES ==
    [c \in CityNames |->
        CASE c = "London"   -> [latitude |-> 515074, longitude |-> 1278]
          [] c = "New York" -> [latitude |-> 407128, longitude |-> -740060]
          [] c = "Paris"    -> [latitude |-> 488566, longitude |-> 23522]
          [] c = "Berlin"   -> [latitude |-> 525200, longitude |-> 134100]
          [] c = "Tokyo"    -> [latitude |-> 356895, longitude |-> 1396917]
          [] c = "Mumbai"   -> [latitude |-> 190760, longitude |-> 728777]]

WeatherCodeKeys ==
    {0, 1, 2, 3, 45, 48, 51, 53, 55, 56, 57, 61, 63, 65, 66, 67,
     71, 73, 75, 77, 80, 81, 82, 85, 86, 95, 96, 99}

WEATHER_CODES ==
    [k \in WeatherCodeKeys |->
        CASE k = 0  -> "Clear sky"
          [] k = 1  -> "Mainly clear"
          [] k = 2  -> "Partly cloudy"
          [] k = 3  -> "Overcast"
          [] k = 45 -> "Fog"
          [] k = 48 -> "Depositing rime fog"
          [] k = 51 -> "Drizzle (light)"
          [] k = 53 -> "Drizzle (moderate)"
          [] k = 55 -> "Drizzle (dense intensity)"
          [] k = 56 -> "Freezing Drizzle (light)"
          [] k = 57 -> "Freezing Drizzle (dense intensity)"
          [] k = 61 -> "Rain (slight)"
          [] k = 63 -> "Rain (moderate)"
          [] k = 65 -> "Rain (heavy intensity)"
          [] k = 66 -> "Freezing Rain (light)"
          [] k = 67 -> "Freezing Rain (heavy intensity)"
          [] k = 71 -> "Snow fall (slight)"
          [] k = 73 -> "Snow fall (moderate)"
          [] k = 75 -> "Snow fall (heavy intensity)"
          [] k = 77 -> "Snow grains"
          [] k = 80 -> "Rain showers (slight)"
          [] k = 81 -> "Rain showers (moderate)"
          [] k = 82 -> "Rain showers (violent)"
          [] k = 85 -> "Snow showers (slight)"
          [] k = 86 -> "Snow showers (heavy)"
          [] k = 95 -> "Thunderstorm (slight or moderate)"
          [] k = 96 -> "Thunderstorm with slight hail"
          [] k = 99 -> "Thunderstorm with heavy hail"]

\* LookupCity as a lookup that folds case would behave: "london" finds London
LookupCityIgnoringCase(c) ==
    IF c \in DOMAIN CITY_COORDINATES
    THEN [found |-> TRUE, coords |-> CITY_COORDINATES[c]]
    ELSE IF c = "london"
    THEN [found |-> TRUE, coords |-> CITY_COORDINATES["London"]]
    ELSE [found |-> FALSE, coords |-> [latitude |-> 0, longitude |-> 0]]

\* CITY_COORDINATES.get(c) and the test "if not coords": the key is the exact
\* string; every entry of the table is a non-empty dictionary, hence true
LookupCity(c) ==
    IF c \in DOMAIN CITY_COORDINATES
    THEN [found |-> TRUE, coords |-> CITY_COORDINATES[c]]
    ELSE [found |-> FALSE, coords |-> [latitude |-> 0, longitude |-> 0]]

\* WeatherDescription as WEATHER_CODES.get(code) without its default would behave
WeatherDescriptionNoDefault(code) ==
    IF code \in DOMAIN WEATHER_CODES THEN WEATHER_CODES[code] ELSE "None"

\* WEATHER_CODES.get(code, "Unknown conditions")
WeatherDescription(code) ==
    IF code \in DOMAIN WEATHER_CODES THEN WEATHER_CODES[code] ELSE "Unknown conditions"

(***************************************************************************)
(* Exceptions                                                              *)
(***************************************************************************)
\* the direct base class of each exception class the tool can meet
ExceptionParent ==
    [c \in {"httpx.HTTPStatusError", "httpx.ConnectError", "httpx.ReadTimeout",
            "httpx.RequestError", "httpx.HTTPError",
            "requests.HTTPError", "requests.ConnectionError", "requests.Timeout",
            "requests.RequestException", "OSError",
            "struct.error", "IndexError", "AttributeError", "ValueError",
            "Exception"} |->
        CASE c = "httpx.HTTPStatusError"     -> "httpx.HTTPError"
          [] c = "httpx.ConnectError"        -> "httpx.RequestError"
          [] c = "httpx.ReadTimeout"         -> "httpx.RequestError"
          [] c = "httpx.RequestError"        -> "httpx.HTTPError"
          [] c = "httpx.HTTPError"           -> "Exception"
          [] c = "requests.HTTPError"        -> "requests.RequestException"
          [] c = "requests.ConnectionError"  -> "requests.RequestException"
          [] c = "requests.Timeout"          -> "requests.RequestException"
          [] c = "requests.RequestException" -> "OSError"
          [] c = "OSError"                   -> "Exception"
          [] c = "struct.error"              -> "Exception"
          [] c = "IndexError"                -> "Exception"
          [] c = "AttributeError"            -> "Exception"
          [] c = "ValueError"                -> "Exception"
          [] c = "Exception"                 -> "BaseException"]

RECURSIVE IsSubclass(_, _)
\* issubclass(cls, base)
IsSubclass(cls, base) ==
    IF cls = base THEN TRUE
    ELSE IF cls \in DOMAIN ExceptionParent THEN IsSubclass(ExceptionParent[cls], base)
    ELSE FALSE

\* an exception: its class, what str(e) shows, the status code of e.response
\* (0 when the class carries no response) and what went wrong at the provider
Exc(cls, msg, code, cause) == [cls |-> cls, msg |-> msg, status_code |-> code, cause |-> cause]

NoExc == [cls |-> "none", msg |-> "", status_code |-> 0, cause |-> "none"]

(***************************************************************************)
(* The request                                                             *)
(***************************************************************************)
NoParams == [none |-> TRUE]

\* the params dictionary
BuildParams(coords, u) ==
    [latitude         |-> coords.latitude,
     longitude        |-> coords.longitude,
     hourly           |-> "temperature_2m",
     current          |-> <<"temperature_2m", "weather_code", "wind_speed_10m", "relative_humidity_2m">>,
     temperature_unit |-> IF u = "metric" THEN "celsius" ELSE "fahrenheit",
     wind_speed_unit  |-> IF u = "metric" THEN "ms" ELSE "mph",
     timezone         |-> "auto"]

unit_symbol(u) == IF u = "metric" THEN "°C" ELSE "°F"

\* speed_unit as a test for "imperial" instead of "metric" would behave
speed_unitTestingImperial(u) == IF u = "imperial" THEN "mph" ELSE "m/s"

speed_unit(u) == IF u = "metric" THEN "m/s" ELSE "mph"

(***************************************************************************)
(* The provider: what Open-Meteo knows and how it answers a request        *)
(***************************************************************************)
\* the i-th point (from 0) of the provider's hourly temperature series
HourlyValue(i) == Float(1990 + 47 * i)

HourlySeries(n) == [i \in 1..n |-> HourlyValue(i - 1)]

BaseWeather ==
    [temperature_2m       |-> Float(2130),
     weather_code         |-> Float(6100),
     wind_speed_10m       |-> Float(320),
     relative_humidity_2m |-> Float(5500),
     series               |-> HourlySeries(3),
     time                 |-> 1700000000,
     interval             |-> 3600,
     utc_offset           |-> 3600,
     elevation            |-> 2500]

\* the weather the provider may hold. Every x.x5 value below is a multiple of
\* 0.25, which binary floating point holds exactly; relative_humidity_2m
\* values are multiples of 0.25 as well, so that repr() shows them with their
\* own digits.
Temperatures == {Float(2130), Float(2125), Float(2175), Float(2196), Float(-4), Float(-1250)}

WeatherCodeValues == {Float(6100), Float(1200), Float(0), Float(9900), Float(10000), NaN}

WindSpeeds == {Float(320), Float(1296), Float(0)}

Humidities == {Float(5500), Float(5550), Float(10000), PyIntValue(55)}

UtcOffsets == {3600, -18000, 19800}

\* seconds between two points of the hourly series
Intervals == {3600, 1800}

Weathers ==
    {[BaseWeather EXCEPT !.temperature_2m = t, !.weather_code = k,
                         !.relative_humidity_2m = r, !.series = HourlySeries(n)] :
        t \in Temperatures, k \in WeatherCodeValues, r \in Humidities, n \in 0..MaxSeries}
    \cup {[BaseWeather EXCEPT !.wind_speed_10m = v, !.utc_offset = o, !.interval = d,
                               !.series = HourlySeries(n)] :
            v \in WindSpeeds, o \in UtcOffsets, d \in Intervals, n \in 0..MaxSeries}

\* how a 200-reply can be broken: not at all, bytes that do not decode,
\* no location in it, or a location without its current variables
Damages == {"none", "garbage", "empty", "no_current"}

\* the decoded reply for one location: current values in the order the request
\* lists them, one hourly series per hourly variable requested
ProviderResponse(p, w, damage) ==
    [Current          |-> LET all == [k \in 1..Len(p.current) |-> w[p.current[k]]]
                          IN  IF damage = "no_current" THEN <<>> ELSE all,
     Hourly           |-> [Time      |-> w.time,
                           Interval  |-> w.interval,
                           Variables |-> <<w.series>>],
     UtcOffsetSeconds |-> w.utc_offset,
     Latitude         |-> p.latitude,
     Longitude        |-> p.longitude,
     Elevation        |-> w.elevation]

\* the body of a 200-reply to request p
ProviderBody(p, w, damage) ==
    [decodes   |-> damage # "garbage",
     responses |-> IF damage \in {"garbage", "empty"} THEN <<>>
                   ELSE <<ProviderResponse(p, w, damage)>>]

(***************************************************************************)
(* The network and the client                                              *)
(***************************************************************************)
NoNet == [kind |-> "none", status |-> 0, damage |-> "none", lib |-> "none"]

\* the HTTP library whose exception classes the client's session raises.
\* openmeteo_client is built on a requests session (requests_cache wrapped by
\* retry_requests); "httpx" stands for a substituted client raising the
\* classes the except clauses name.
SessionLibraries == {"requests", "httpx"}

\* what can happen to one request on the network: a 200-reply (sound or
\* broken), an error status, no connection, or a timeout
NetOutcomes ==
    {[kind |-> "reply", status |-> 200, damage |-> d, lib |-> "requests"] : d \in Damages}
    \cup {[kind |-> k, status |-> 0, damage |-> "none", lib |-> l] :
            k \in {"unreachable", "timeout"}, l \in SessionLibraries}
    \cup {[kind |-> "reply", status |-> s, damage |-> "none", lib |-> l] :
            s \in {404, 503}, l \in SessionLibraries}

\* the exception the session raises for a request that got no 200-reply
SessionError(n) ==
    IF n.kind = "reply"
    THEN Exc(IF n.lib = "httpx" THEN "httpx.HTTPStatusError" ELSE "requests.HTTPError",
             ToString(n.status) \o (IF n.status < 500 THEN " Client Error" ELSE " Server Error"),
             n.status, "http_status")
    ELSE IF n.kind = "unreachable"
    THEN Exc(IF n.lib = "httpx" THEN "httpx.ConnectError" ELSE "requests.ConnectionError",
             "Connection refused", 0, "network")
    ELSE Exc(IF n.lib = "httpx" THEN "httpx.ReadTimeout" ELSE "requests.Timeout",
             "Read timed out", 0, "timeout")

CacheHit(cacheSet, p) == \E e \in cacheSet : e.key = p

CachedBody(cacheSet, p) == (CHOOSE e \in cacheSet : e.key = p).body

\* weather_api as a session whose cache key leaves the unit parameters out
\* would behave: a reply stored for the same place is served under any units
weather_apiKeyedByPlace(p, cacheSet, n, w) ==
    LET same(e) == e.key.latitude = p.latitude /\ e.key.longitude = p.longitude
        hit  == \E e \in cacheSet : same(e)
        ok   == hit \/ (n.kind = "reply" /\ n.status = 200)
        body == IF hit THEN (CHOOSE e \in cacheSet : same(e)).body
                ELSE ProviderBody(p, w, n.damage)
    IN  [exc       |-> IF ~ok THEN SessionError(n)
                       ELSE IF ~body.decodes
                       THEN Exc("struct.error", "unpack_from requires a buffer of at least 4 bytes",
                                0, "malformed")
                       ELSE NoExc,
         responses |-> IF ok /\ body.decodes THEN body.responses ELSE <<>>,
         cache     |-> IF ok /\ ~hit THEN cacheSet \cup {[key |-> p, body |-> body]} ELSE cacheSet,
         served    |-> IF hit THEN "cache" ELSE "network"]

\* openmeteo_client.weather_api(OPENMETEO_BASE_URL, params=p) on the cached
\* session: a stored reply is served without the network; a fresh 200-reply
\* is stored; anything else raises. The body is decoded after that.
weather_api(p, cacheSet, n, w) ==
    LET hit  == CacheHit(cacheSet, p)
        ok   == hit \/ (n.kind = "reply" /\ n.status = 200)
        body == IF hit THEN CachedBody(cacheSet, p)
                ELSE ProviderBody(p, w, n.damage)
    IN  [exc       |-> IF ~ok THEN SessionError(n)
                       ELSE IF ~body.decodes
                       THEN Exc("struct.error", "unpack_from requires a buffer of at least 4 bytes",
                                0, "malformed")
                       ELSE NoExc,
         responses |-> IF ok /\ body.decodes THEN body.responses ELSE <<>>,
         cache     |-> IF ok /\ ~hit THEN cacheSet \cup {[key |-> p, body |-> body]} ELSE cacheSet,
         served    |-> IF hit THEN "cache" ELSE "network"]

(***************************************************************************)
(* get_current_weather                                                     *)
(***************************************************************************)
NoResult == [none |-> TRUE]

\* how many hourly points the report carries at most
ForecastHours == 3

Min(a, b) == IF a < b THEN a ELSE b

TwoDigits(n) == IF n < 10 THEN "0" \o ToString(n) ELSE ToString(n)

\* FormatHHMM as strftime("%I:%M"), the 12-hour clock, would behave
FormatHHMM12Hour(t) ==
    LET s == t % 86400
        h == (s \div 3600) % 12
    IN  TwoDigits(IF h = 0 THEN 12 ELSE h) \o ":" \o TwoDigits((s % 3600) \div 60)

\* strftime("%H:%M") of the UTC datetime t seconds after the epoch
FormatHHMM(t) ==
    LET s == t % 86400
    IN  TwoDigits(s \div 3600) \o ":" \o TwoDigits((s % 3600) \div 60)

\* block.Variables(k) is None when the block holds no variables
HasVariable(block, k) == k < Len(block)

\* block.Variables(k).Value(), k counted from 0
VariableValue(block, k) == block[k + 1]

\* ReadCurrent with the reads of positions 1 and 2 exchanged
ReadCurrentSwapped(current) ==
    [temperature_2m |-> VariableValue(current, 0),
     weather_code   |-> VariableValue(current, 2),
     wind_speed     |-> VariableValue(current, 1),
     humidity       |-> VariableValue(current, 3)]

\* the four reads of the current block, by position
ReadCurrent(current) ==
    [temperature_2m |-> VariableValue(current, 0),
     weather_code   |-> VariableValue(current, 1),
     wind_speed     |-> VariableValue(current, 2),
     humidity       |-> VariableValue(current, 3)]

\* HourlyCount as a loop over the whole series would behave
HourlyCountUncapped(values) == Len(values)

\* min(3, len(hourly_temperature_2m))
HourlyCount(values) == Min(ForecastHours, Len(values))

\* the loop over range(min(3, len(hourly_temperature_2m)))
HourlyDataPoints(response, u) ==
    LET hourly == response.Hourly
        values == hourly.Variables[1]
    IN  [i \in 1..HourlyCount(values) |->
            [time        |-> FormatHHMM(hourly.Time + (i - 1) * hourly.Interval
                                        + response.UtcOffsetSeconds),
             temperature |-> FormatOneDecimal(values[i]) \o unit_symbol(u)]]

\* BuildResult as a tool that converts the temperature to Fahrenheit itself
\* under non-metric units would behave
BuildResultConvertingImperial(c, u, response, cur) ==
    [city                         |-> c,
     current_temperature          |-> FormatOneDecimal(
                                         IF u = "metric" \/ cur.temperature_2m.ty = "nan"
                                         THEN cur.temperature_2m
                                         ELSE Float((cur.temperature_2m.h * 9) \div 5 + 3200))
                                      \o unit_symbol(u),
     conditions                   |-> WeatherDescription(IntOf(cur.weather_code)),
     humidity                     |-> FormatPlain(cur.humidity) \o "%",
     wind_speed                   |-> FormatOneDecimal(cur.wind_speed) \o " " \o speed_unit(u),
     hourly_forecast_next_3_hours |-> HourlyDataPoints(response, u),
     api_response_metadata        |-> [latitude        |-> response.Latitude,
                                       longitude       |-> response.Longitude,
                                       elevation       |-> response.Elevation,
                                       timezone_offset |-> response.UtcOffsetSeconds]]

\* the result dictionary of the success path
BuildResult(c, u, response, cur) ==
    [city                         |-> c,
     current_temperature          |-> FormatOneDecimal(cur.temperature_2m) \o unit_symbol(u),
     conditions                   |-> WeatherDescription(IntOf(cur.weather_code)),
     humidity                     |-> FormatPlain(cur.humidity) \o "%",
     wind_speed                   |-> FormatOneDecimal(cur.wind_speed) \o " " \o speed_unit(u),
     hourly_forecast_next_3_hours |-> HourlyDataPoints(response, u),
     api_response_metadata        |-> [latitude        |-> response.Latitude,
                                       longitude       |-> response.Longitude,
                                       elevation       |-> response.Elevation,
                                       timezone_offset |-> response.UtcOffsetSeconds]]

\* the try block after the provider call: responses[0], the current block,
\* the weather code, the hourly block, the result. Yields the exception the
\* first failing statement raises, or the result.
Normalize(c, u, responses) ==
    IF Len(responses) = 0
    THEN [exc |-> Exc("IndexError", "list index out of range", 0, "malformed"),
          result |-> NoResult]
    ELSE LET response == responses[1]
         IN  IF \E k \in 0..3 : ~HasVariable(response.Current, k)
             THEN [exc |-> Exc("AttributeError", "'NoneType' object has no attribute 'Value'",
                               0, "malformed"),
                   result |-> NoResult]
             ELSE LET cur == ReadCurrent(response.Current)
                  IN  IF IntRaises(cur.weather_code)
                      THEN [exc |-> Exc("ValueError", "cannot convert float NaN to integer",
                                        0, "malformed"),
                            result |-> NoResult]
                      ELSE [exc |-> NoExc, result |-> BuildResult(c, u, response, cur)]

\* ExceptClause as the handler would behave without its last clause
ExceptClauseWithoutCatchAll(e) ==
    IF IsSubclass(e.cls, "httpx.HTTPStatusError") THEN "HTTPStatusError"
    ELSE IF IsSubclass(e.cls, "httpx.RequestError") THEN "RequestError"
    ELSE "none"

\* which except clause takes the exception: the first, in source order, whose
\* class the exception is an instance of
ExceptClause(e) ==
    IF IsSubclass(e.cls, "httpx.HTTPStatusError") THEN "HTTPStatusError"
    ELSE IF IsSubclass(e.cls, "httpx.RequestError") THEN "RequestError"
    ELSE IF IsSubclass(e.cls, "Exception") THEN "Exception"
    ELSE "none"

\* ErrorResult as a handler that adds the error to a result begun earlier
\* would behave
ErrorResultWithPartialReport(e, c) ==
    [error |-> "An unexpected error occurred: " \o e.msg, city |-> c]

\* the dictionary the except clause returns
ErrorResult(e, c) ==
    CASE ExceptClause(e) = "HTTPStatusError" ->
            [error |-> "HTTP error: " \o ToString(e.status_code) \o " for " \o c
                       \o ". Check city name or API configuration."]
      [] ExceptClause(e) = "RequestError" ->
            [error |-> "Network error: Could not connect to weather service for " \o c \o "."]
      [] ExceptClause(e) = "Exception" ->
            [error |-> "An unexpected error occurred: " \o e.msg]
      [] OTHER -> NoResult

\* the dictionary of the city-not-found return
CityNotFound(c) == [error |-> "City '" \o c \o "' not found. Please provide a supported city."]

\* ProviderCalls as a tool that calls again after a failure would behave
ProviderCallsRetrying(first) == IF first.exc # NoExc THEN <<first, first>> ELSE <<first>>

\* the invocations of openmeteo_client.weather_api one call of the tool makes,
\* given the outcome of the first: the try block holds one call site, outside
\* any loop, and no except clause calls again
ProviderCalls(first) == <<first>>

\* one call of the tool on the cache contents cacheSet, the network doing n
\* and the provider holding w: everything the call leaves behind
get_current_weather(c, u, cacheSet, n, w) ==
    IF ~LookupCity(c).found
    THEN [status |-> "returned", params |-> NoParams, calls |-> 0, net |-> NoNet,
          served |-> "none", caught |-> NoExc, result |-> CityNotFound(c),
          raised |-> NoExc, cache |-> cacheSet]
    ELSE LET p    == BuildParams(LookupCity(c).coords, u)
             made == ProviderCalls(weather_api(p, cacheSet, n, w))
             api  == made[Len(made)]
             norm == IF api.exc # NoExc THEN [exc |-> api.exc, result |-> NoResult]
                     ELSE Normalize(c, u, api.responses)
             e    == norm.exc
             handled == e # NoExc /\ ExceptClause(e) # "none"
         IN  [status |-> IF e = NoExc \/ handled THEN "returned" ELSE "raised",
              params |-> p,
              calls  |-> Len(made),
              net    |-> IF api.served = "network" THEN n ELSE NoNet,
              served |-> api.served,
              caught |-> IF handled THEN e ELSE NoExc,
              result |-> IF e = NoExc THEN norm.result
                         ELSE IF handled THEN ErrorResult(e, c) ELSE NoResult,
              raised |-> IF e # NoExc /\ ~handled THEN e ELSE NoExc,
              cache  |-> api.cache]

(***************************************************************************)
(* The state machine                                                       *)
(***************************************************************************)
\* the arguments callers pass: one city of the table, and names that miss it
InputCities == {"London", "london", " London", "Atlantis"}

InputUnits == {"metric", "imperial", "kelvin"}

\* the weather the provider moves between while the server runs
ChangingWeathers ==
    {BaseWeather,
     [BaseWeather EXCEPT !.temperature_2m = Float(-1250), !.weather_code = Float(7100),
                         !.series = HourlySeries(1)]}

InitCalls ==
    /\ cache = {}
    /\ status = "idle"
    /\ city = ""
    /\ units = ""
    /\ params = NoParams
    /\ calls = 0
    /\ net = NoNet
    /\ served = "none"
    /\ caught = NoExc
    /\ result = NoResult
    /\ raised = NoExc

Init == weather \in ChangingWeathers /\ InitCalls

\* whether a call with these arguments sends a request to the network
ReachesNetwork(c, u) ==
    /\ LookupCity(c).found
    /\ ~CacheHit(cache, BuildParams(LookupCity(c).coords, u))

\* a caller invokes the tool with arguments from Cs and Us, the network doing
\* one of Ns; the call runs to its return (the coroutine has no await, so
\* nothing interleaves with it)
GetCurrentWeather(Cs, Us, Ns) ==
    \E c \in Cs, u \in Us :
        \E n \in (IF ReachesNetwork(c, u) THEN Ns ELSE {NoNet}) :
            LET out == get_current_weather(c, u, cache, n, weather)
            IN  /\ city' = c
                /\ units' = u
                /\ status' = out.status
                /\ params' = out.params
                /\ calls' = out.calls
                /\ net' = out.net
                /\ served' = out.served
                /\ caught' = out.caught
                /\ result' = out.result
                /\ raised' = out.raised
                /\ cache' = out.cache
                /\ UNCHANGED weather

\* a stored reply reaches expire_after and is dropped
CacheExpire ==
    /\ \E e \in cache : cache' = cache \ {e}
    /\ UNCHANGED <<weather, status, city, units, params, calls, net, served, caught, result, raised>>

\* the weather at the provider changes
WeatherChanges ==
    /\ \E w \in ChangingWeathers \ {weather} : weather' = w
    /\ UNCHANGED <<cache, status, city, units, params, calls, net, served, caught, result, raised>>

Next ==
    \/ GetCurrentWeather(InputCities, InputUnits, NetOutcomes)
    \/ CacheExpire
    \/ WeatherChanges

Spec == Init /\ [][Next]_vars

\* every weather of Weathers, held fixed, queried under both unit systems
InitValues == weather \in Weathers /\ InitCalls

SuccessfulReplies == {n \in NetOutcomes : n.status = 200 /\ n.damage = "none"}

NextValues ==
    \/ GetCurrentWeather({"London"}, {"metric", "imperial"}, SuccessfulReplies)
    \/ CacheExpire

SpecValues == InitValues /\ [][NextValues]_vars

(***************************************************************************)
(* Properties                                                              *)
(***************************************************************************)
ReportFields ==
    {"city", "current_temperature", "conditions", "humidity", "wind_speed",
     "hourly_forecast_next_3_hours", "api_response_metadata"}

IsReport(r) == DOMAIN r = ReportFields

IsErrorResult(r) == DOMAIN r = {"error"}

\* C1: a city name that is no key of the city table (the match is exact, so
\* "london" and " London" miss) gets the error result naming that city, and
\* the call never invokes the provider client: no request is built, the call
\* count stays 0 and neither the cache nor the network serves anything.
C1_UnknownCityNoProviderCall ==
    (status # "idle" /\ city \notin CityNames) =>
        /\ result = [error |-> "City '" \o city \o "' not found. Please provide a supported city."]
        /\ calls = 0
        /\ params = NoParams
        /\ served = "none"
        /\ net = NoNet

C1_Witness ==
    status = "returned" /\ city = "london" /\ calls = 0 /\ IsErrorResult(result)

\* C2: whatever the arguments and whatever the provider did, the value a call
\* returns has exactly the fields of a weather report or exactly the one
\* field "error": never both kinds of field, never neither.
C2_ExactlyOneShape ==
    status # "idle" =>
        /\ IsReport(result) \/ IsErrorResult(result)
        /\ "error" \in DOMAIN result => DOMAIN result \cap ReportFields = {}

C2_Witness ==
    /\ status = "returned"
    /\ served = "network"
    /\ caught.cause = "malformed"
    /\ IsErrorResult(result)

\* C3 (as claimed): a units value outside {metric, imperial} is rejected: the
\* call ends in an error result.
C3_UnitsOutsideDomainRejected ==
    (status # "idle" /\ units \notin {"metric", "imperial"}) => IsErrorResult(result)

\* C4 (as claimed): a provider failure gets the result of its own kind: an
\* error status the HTTP message with the status code and the city, an
\* unreachable provider the network message with the city, a malformed reply
\* the unexpected-error message with the failure's description.
C4_FailuresClassifiedByKind ==
    (status = "returned" /\ caught # NoExc) =>
        /\ caught.cause = "http_status" =>
             result = [error |-> "HTTP error: " \o ToString(net.status) \o " for " \o city
                                 \o ". Check city name or API configuration."]
        /\ caught.cause = "network" =>
             result = [error |-> "Network error: Could not connect to weather service for "
                                 \o city \o "."]
        /\ caught.cause = "malformed" =>
             result = [error |-> "An unexpected error occurred: " \o caught.msg]

\* C5: no failure leaves the call uncaught: every call returns, and a call
\* whose provider request failed or whose reply did not parse returns an
\* error result built by one of the except clauses.
C5_NoFailureEscapes ==
    status # "idle" =>
        /\ status = "returned"
        /\ raised = NoExc
        /\ (net.kind \in {"unreachable", "timeout"}
              \/ (net.kind = "reply" /\ net.status # 200)
              \/ net.damage # "none")
             => (caught # NoExc /\ IsErrorResult(result))
        /\ caught # NoExc => IsErrorResult(result)

C5_Witness ==
    /\ status = "returned"
    /\ caught.cls = "AttributeError"
    /\ raised = NoExc
    /\ IsErrorResult(result)

\* C6: a weather report carries min(3, length of the hourly series) hourly
\* entries, entry i built from point i of the series, and a series shorter
\* than 3 (one point, none) still gives a report.
C6_HourlyForecastLength ==
    /\ IsReport(result) =>
         LET f == result.hourly_forecast_next_3_hours
             s == weather.series
         IN  /\ Len(f) = (IF Len(s) < 3 THEN Len(s) ELSE 3)
             /\ \A i \in 1..Len(f) :
                    f[i].temperature
                        = FormatOneDecimal(s[i]) \o (IF units = "metric" THEN "°C" ELSE "°F")
    /\ (status # "idle" /\ weather.weather_code.ty # "nan" /\ Len(weather.series) < 3)
         => IsReport(result)

C6_Witness ==
    /\ IsReport(result)
    /\ Len(weather.series) = 1
    /\ Len(result.hourly_forecast_next_3_hours) = 1

\* C7: one call of the tool invokes the provider client at most once: once
\* when the city resolves, never otherwise, and once only when the provider
\* call or the parsing failed.
C7_AtMostOneProviderCall ==
    /\ calls \in {0, 1}
    /\ status # "idle" => calls = (IF city \in CityNames THEN 1 ELSE 0)
    /\ caught # NoExc => calls = 1

C7_Witness ==
    /\ status = "returned"
    /\ caught.cause = "network"
    /\ calls = 1
    /\ IsErrorResult(result)

\* C8: the conditions field is the weather-code table's description of the
\* code when the code is a key of the table and "Unknown conditions"
\* otherwise, and the call returns a weather report in both cases.
C8_WeatherCodeDescription ==
    (status # "idle" /\ weather.weather_code.ty # "nan") =>
        /\ IsReport(result)
        /\ LET k == IntOf(weather.weather_code)
           IN  /\ k \in WeatherCodeKeys => result.conditions = WEATHER_CODES[k]
               /\ k \notin WeatherCodeKeys => result.conditions = "Unknown conditions"
               /\ k = 61 => result.conditions = "Rain (slight)"

C8_Witness ==
    /\ IsReport(result)
    /\ IntOf(weather.weather_code) = 12
    /\ result.conditions = "Unknown conditions"

\* C9: every request lists the current variables as temperature, weather
\* code, wind speed, humidity, the hourly variable as temperature and the
\* timezone as auto; and the report's temperature, conditions, wind speed and
\* humidity are made from the provider's values of the first, second, third
\* and fourth variable requested.
C9_RequestOrderMatchesExtraction ==
    /\ params # NoParams =>
         /\ params.current = <<"temperature_2m", "weather_code", "wind_speed_10m",
                               "relative_humidity_2m">>
         /\ params.hourly = "temperature_2m"
         /\ params.timezone = "auto"
    /\ IsReport(result) =>
         /\ result.current_temperature
              = FormatOneDecimal(weather[params.current[1]]) \o unit_symbol(units)
         /\ result.conditions = WeatherDescription(IntOf(weather[params.current[2]]))
         /\ result.wind_speed
              = FormatOneDecimal(weather[params.current[3]]) \o " " \o speed_unit(units)
         /\ result.humidity = FormatPlain(weather[params.current[4]]) \o "%"

C9_Witness ==
    /\ IsReport(result)
    /\ weather.wind_speed_10m = Float(1296)
    /\ units = "metric"
    /\ result.wind_speed = "13.0 m/s"
    /\ result.current_temperature = "21.3°C"

\* C10 (as claimed): a report's temperature and wind speed show one decimal
\* place and the unit, its humidity is an integer followed by "%", with no
\* decimal point; the values 21.3, 61, 3.2, 55 give "21.3°C", "Rain (slight)",
\* "3.2 m/s" and "55%" under metric.
C10_CurrentValuesFormatted ==
    IsReport(result) =>
        /\ result.current_temperature
             = FormatOneDecimal(weather.temperature_2m) \o (IF units = "metric" THEN "°C" ELSE "°F")
        /\ result.wind_speed
             = FormatOneDecimal(weather.wind_speed_10m) \o (IF units = "metric" THEN " m/s" ELSE " mph")
        /\ result.humidity \in {ToString(k) \o "%" : k \in 0..100}
        /\ (/\ units = "metric"
            /\ weather.temperature_2m.h = 2130
            /\ weather.weather_code.h = 6100
            /\ weather.wind_speed_10m.h = 320
            /\ weather.relative_humidity_2m.h = 5500)
             => /\ result.current_temperature = "21.3°C"
                /\ result.conditions = "Rain (slight)"
                /\ result.wind_speed = "3.2 m/s"
                /\ result.humidity = "55%"

\* the temperature and wind-speed texts, without unit, the replies can give
OneDecimalTexts ==
    {FormatOneDecimal(v) : v \in Temperatures \cup WindSpeeds}
    \cup {FormatOneDecimal(HourlyValue(i)) : i \in 0..MaxSeries}

\* C11: two calls for the same city on the same provider data, one under
\* metric and one under imperial, build requests that differ in nothing but
\* temperature_unit and wind_speed_unit, and return results that differ in
\* nothing but the unit symbols: the numbers shown, the conditions, the
\* humidity, the hourly times, the list length and the metadata are the same.
C11_UnitSwitchChangesOnlyUnits ==
    [][(/\ status = "returned" /\ status' = "returned"
        /\ city' = city /\ weather' = weather
        /\ units # units' /\ {units, units'} = {"metric", "imperial"})
       => /\ params' = [params EXCEPT !.temperature_unit = params'.temperature_unit,
                                      !.wind_speed_unit = params'.wind_speed_unit]
          /\ IsReport(result) <=> IsReport(result')
          /\ ~IsReport(result) => result' = result
          /\ IsReport(result) =>
               LET sym(u) == IF u = "metric" THEN "°C" ELSE "°F"
                   spd(u) == IF u = "metric" THEN " m/s" ELSE " mph"
                   f == result.hourly_forecast_next_3_hours
                   g == result'.hourly_forecast_next_3_hours
               IN  /\ result'.city = result.city
                   /\ result'.conditions = result.conditions
                   /\ result'.humidity = result.humidity
                   /\ result'.api_response_metadata = result.api_response_metadata
                   /\ \E t \in OneDecimalTexts :
                          /\ result.current_temperature = t \o sym(units)
                          /\ result'.current_temperature = t \o sym(units')
                   /\ \E t \in OneDecimalTexts :
                          /\ result.wind_speed = t \o spd(units)
                          /\ result'.wind_speed = t \o spd(units')
                   /\ Len(g) = Len(f)
                   /\ \A i \in 1..Len(f) :
                          /\ g[i].time = f[i].time
                          /\ \E t \in OneDecimalTexts :
                                 /\ f[i].temperature = t \o sym(units)
                                 /\ g[i].temperature = t \o sym(units')]_vars

C11_Witness ==
    /\ status = "returned"
    /\ units = "imperial"
    /\ served = "network"
    /\ IsReport(result)
    /\ result.current_temperature = "21.3°F"
    /\ \E e \in cache : e.key.temperature_unit = "celsius"

\* minute m of the day on a zero-padded 24-hour clock
ClockText(m) ==
    LET hh == m \div 60
        mm == m % 60
    IN  (IF hh < 10 THEN "0" ELSE "") \o ToString(hh) \o ":"
        \o (IF mm < 10 THEN "0" ELSE "") \o ToString(mm)

\* C12: the time of hourly entry i (from 0) is the zero-padded 24-hour HH:MM
\* of baseTimestamp + i * interval + utcOffsetSeconds within its day; with an
\* interval of 3600 each entry is one hour after the one before it, past
\* midnight as well, whatever the sign of the UTC offset.
C12_HourlyLocalTimes ==
    IsReport(result) =>
        LET f == result.hourly_forecast_next_3_hours
            minute(i) == ((weather.time + (i - 1) * weather.interval + weather.utc_offset)
                            % 86400) \div 60
        IN  /\ \A i \in 1..Len(f) : f[i].time = ClockText(minute(i))
            /\ weather.interval = 3600 =>
                 \A i \in 1..(Len(f) - 1) : f[i + 1].time = ClockText((minute(i) + 60) % 1440)

C12_Witness ==
    /\ IsReport(result)
    /\ weather.interval = 3600
    /\ weather.utc_offset = 3600
    /\ Len(result.hourly_forecast_next_3_hours) = 3
    /\ result.hourly_forecast_next_3_hours[1].time = "23:13"
    /\ result.hourly_forecast_next_3_hours[2].time = "00:13"

\* C13 (as claimed): a provider call that fails by a timeout ends in the
\* network-error result naming the city.
C13_TimeoutIsNetworkError ==
    (status = "returned" /\ net.kind = "timeout") =>
        result = [error |-> "Network error: Could not connect to weather service for "
                            \o city \o "."]

\* a step that is a call of the tool: the other steps change the weather or
\* drop a cache entry
CallStep == weather' = weather /\ cache \subseteq cache'

\* C14 (as claimed): the result of a call is determined by its own city and
\* units and the provider's reply to its own request alone: it is a result
\* the call gets from the provider as the provider stands, whatever other
\* calls did before.
C14_ResultFromOwnRequestOnly ==
    [][CallStep =>
         \E n \in NetOutcomes \cup {NoNet} :
             result' = get_current_weather(city', units', {}, n, weather).result]_vars

\* C14 (amended): the only state a call shares with other calls is the reply
\* cache of cache_session. A call served by the cache reads the one entry
\* stored under its own request, its result is fixed by that entry whatever
\* the provider holds now, and it leaves the cache as it was; a call served by
\* the network finds no entry under its request, takes its result from the
\* provider's reply to that request, and adds at most the entry of its own
\* request and reply; a call that builds no request leaves the cache alone.
C14_CallsShareOnlyTheReplyCache ==
    [][CallStep =>
         /\ served' = "none" => cache' = cache
         /\ served' = "cache" =>
              /\ cache' = cache
              /\ \E e \in cache :
                     /\ e.key = params'
                     /\ \A w \in ChangingWeathers :
                            result' = get_current_weather(city', units', {e}, NoNet, w).result
         /\ served' = "network" =>
              /\ \A e \in cache : e.key # params'
              /\ result' = get_current_weather(city', units', {}, net', weather).result
              /\ \A e \in cache' \ cache :
                     /\ e.key = params'
                     /\ e.body = ProviderBody(params', weather, net'.damage)
              /\ Cardinality(cache' \ cache) <= 1]_vars

C14_Witness ==
    /\ status = "returned"
    /\ served = "cache"
    /\ IsReport(result)
    /\ result.current_temperature = "21.3°C"
    /\ weather.temperature_2m = Float(-1250)
    /\ \E e \in cache : e.key = params

\* C15: whatever the units string, a call that builds a request sends
\* celsius with ms or fahrenheit with mph, never a mix, and every temperature
\* and the wind speed of its report carry the symbols of that same system:
\* °C and m/s with celsius and ms, °F and mph with fahrenheit and mph.
C15_UnitTokensMatchSymbols ==
    (status = "returned" /\ params # NoParams) =>
        LET metricTokens == params.temperature_unit = "celsius" /\ params.wind_speed_unit = "ms"
            imperialTokens == params.temperature_unit = "fahrenheit" /\ params.wind_speed_unit = "mph"
            degrees == IF metricTokens THEN "°C" ELSE "°F"
            speed == IF metricTokens THEN " m/s" ELSE " mph"
        IN  /\ metricTokens \/ imperialTokens
            /\ IsReport(result) =>
                 /\ \E t \in OneDecimalTexts : result.current_temperature = t \o degrees
                 /\ \E t \in OneDecimalTexts : result.wind_speed = t \o speed
                 /\ \A i \in 1..Len(result.hourly_forecast_next_3_hours) :
                        \E t \in OneDecimalTexts :
                            result.hourly_forecast_next_3_hours[i].temperature = t \o degrees

C15_Witness ==
    /\ status = "returned"
    /\ units = "kelvin"
    /\ IsReport(result)
    /\ params.temperature_unit = "fahrenheit"
    /\ params.wind_speed_unit = "mph"
    /\ result.current_temperature = "21.3°F"
    /\ result.wind_speed = "3.2 mph"

====
